---- MODULE Spec2Model ----
(***************************************************************************)
(* A model of medullah-multipart: FileInfo::create (src/src/file.rs) and   *)
(* Uploader::capture / capture_advance / save (src/src/uploader.rs).       *)
(*                                                                         *)
(* Strings are sequences of one-character strings, so that split, trim,    *)
(* split_once and trim_matches are computed character by character.        *)
(***************************************************************************)
EXTENDS Integers, Sequences, FiniteSets, TLC

VARIABLES
    multipart,  \* Uploader.multipart: [items, pos], the part stream and how many items were pulled
    bytes,      \* Uploader.bytes: Vec<Bytes>
    file,       \* Uploader.file: FileInfo
    disk,       \* the file at the path given to save: None or Some(its content) (a byte sequence)
    accepted,   \* the stream positions of the parts for which a capture returned Ok
    last,       \* the last call made on the Uploader and what it returned
    headers,    \* the HeaderMap handed to FileInfo::create (SpecCreate)
    hdrSrc,     \* how that HeaderMap was written: its content-disposition variables
    created     \* what FileInfo::create returned for it (SpecCreate)

vars == <<multipart, bytes, file, disk, accepted, last, headers, hdrSrc, created>>

(***************************************************************************)
(* Bounds of the model.                                                    *)
(***************************************************************************)
MaxParts == 2   \* items in the multipart stream
MaxChunks == 2  \* chunks of one part
MaxSize == 1    \* largest lower_size / upper_size a caller asks for
MaxVars == 3    \* variables of a generated content-disposition header

\* Option<T>: a sequence of no element or of one
None == <<>>
Some(v) == <<v>>
unwrap(o) == o[1]
Ok(v) == [tag |-> "Ok", val |-> v]
Err(e) == [tag |-> "Err", err |-> e]

(***************************************************************************)
(* Characters and the str functions file.rs uses.                          *)
(***************************************************************************)
Quote == "\""
WhiteSpace == {" ", "\t"}
\* a header byte outside visible ASCII: HeaderValue::to_str fails on it
OpaqueByte == "0xE9"

s_form_data == <<"f", "o", "r", "m", "-", "d", "a", "t", "a">>
s_name == <<"n", "a", "m", "e">>
s_filename == <<"f", "i", "l", "e", "n", "a", "m", "e">>
s_app == <<"a", "p", "p">>
s_invalid == <<"i", "n", "v", "a", "l", "i", "d">>
s_image_png == <<"i", "m", "a", "g", "e", "/", "p", "n", "g">>
s_text_plain == <<"t", "e", "x", "t", "/", "p", "l", "a", "i", "n">>
s_a == <<"a">>
s_b == <<"b">>
s_x_png == <<"x", ".", "p", "n", "g">>
s_k_eq_v == <<"k", "=", "v">>

\* index of the first occurrence of c in s, 0 when there is none
find(s, c) ==
    IF \E i \in 1..Len(s) : s[i] = c
    THEN CHOOSE i \in 1..Len(s) : s[i] = c /\ \A j \in 1..(i - 1) : s[j] # c
    ELSE 0

\* str::split(c): the segments between the occurrences of c, at least one
RECURSIVE split(_, _)
split(s, c) ==
    LET i == find(s, c)
    IN  IF i = 0 THEN <<s>>
        ELSE <<SubSeq(s, 1, i - 1)>> \o split(SubSeq(s, i + 1, Len(s)), c)

\* str::split_once(c): None, or <<before, after>> the first occurrence of c
split_once(s, c) ==
    LET i == find(s, c)
    IN  IF i = 0 THEN None
        ELSE Some(<<SubSeq(s, 1, i - 1), SubSeq(s, i + 1, Len(s))>>)

RECURSIVE trim_start_set(_, _)
trim_start_set(s, cs) ==
    IF s # <<>> /\ Head(s) \in cs THEN trim_start_set(Tail(s), cs) ELSE s

RECURSIVE trim_end_set(_, _)
trim_end_set(s, cs) ==
    IF s # <<>> /\ s[Len(s)] \in cs THEN trim_end_set(SubSeq(s, 1, Len(s) - 1), cs) ELSE s

\* str::trim(): leading and trailing whitespace removed
trim(s) == trim_end_set(trim_start_set(s, WhiteSpace), WhiteSpace)

trim_matches_id(s, c) == s

\* str::trim_matches(c): every leading and trailing c removed
trim_matches(s, c) == trim_end_set(trim_start_set(s, {c}), {c})

\* HeaderValue::to_str: the text of the value, or an error on a byte that is not visible ASCII
to_str(v) == IF \E i \in 1..Len(v) : v[i] = OpaqueByte THEN Err("ToStrError") ELSE Ok(v)

(***************************************************************************)
(* FileInfo (file.rs).  A HeaderMap is [ct, cd]: the values of the         *)
(* content-type and content-disposition headers, None when absent.         *)
(***************************************************************************)
EmptyMap == <<>>

contains_key(m, k) == k \in DOMAIN m

\* HashMap::insert: a later value replaces an earlier one of the same key
insert(m, k, v) == [x \in DOMAIN m \cup {k} |-> IF x = k THEN v ELSE m[x]]

FileInfo_default ==
    [name |-> <<>>, field |-> <<>>, size |-> 0, content_type |-> <<>>,
     extension |-> None, content_disposition_vars |-> EmptyMap]

RECURSIVE parse_parts(_, _)
parse_parts(parts, variables) ==
    IF parts = <<>> THEN variables
    ELSE LET part == trim(Head(parts))
             kv == split_once(part, "=")
         IN  IF kv = None THEN parse_parts(Tail(parts), variables)
             ELSE parse_parts(Tail(parts),
                      insert(variables, trim(unwrap(kv)[1]),
                             trim_matches(trim(unwrap(kv)[2]), Quote)))

parse_content_disposition(content_disposition) ==
    parse_parts(split(content_disposition, ";"), EmptyMap)

get_content_type(h) ==
    IF h.ct = None THEN Err("InvalidContentType")
    ELSE IF to_str(unwrap(h.ct)).tag = "Err" THEN Err("InvalidContentType")
    ELSE Ok(to_str(unwrap(h.ct)).val)

get_content_disposition_ct(h) ==
    IF h.cd = None THEN Err("InvalidContentType")
    ELSE IF to_str(unwrap(h.cd)).tag = "Err" THEN Err("InvalidContentDisposition")
    ELSE Ok(to_str(unwrap(h.cd)).val)

get_content_disposition(h) ==
    IF h.cd = None THEN Err("InvalidContentDisposition")
    ELSE IF to_str(unwrap(h.cd)).tag = "Err" THEN Err("InvalidContentDisposition")
    ELSE Ok(to_str(unwrap(h.cd)).val)

last_of(seq) == seq[Len(seq)]

FileInfo_create(h) ==
    LET content_type == get_content_type(h)
        content_disposition == get_content_disposition(h)
    IN  IF content_type.tag = "Err" THEN content_type
        ELSE IF content_disposition.tag = "Err" THEN content_disposition
        ELSE LET variables == parse_content_disposition(content_disposition.val)
             IN  IF ~contains_key(variables, s_name) \/ ~contains_key(variables, s_filename)
                 THEN Err("InvalidContentDisposition")
                 ELSE Ok([name |-> variables[s_filename],
                          field |-> variables[s_name],
                          content_type |-> content_type.val,
                          size |-> 0,
                          extension |-> Some(last_of(split(variables[s_filename], "."))),
                          content_disposition_vars |-> variables])

(***************************************************************************)
(* Header maps for FileInfo::create: a content-disposition is written from *)
(* a list of variables [key, value, style] behind "form-data".             *)
(***************************************************************************)
VarKeys == {s_name, s_filename, s_app}
VarValues == {s_a, s_x_png, s_k_eq_v}
VarStyles == {"quoted", "padded"}
VarSpecs == [key : VarKeys, value : VarValues, style : VarStyles]

\* key="value", or with whitespace around the key and around the quoted value
render_var(v) ==
    IF v.style = "quoted"
    THEN <<" ">> \o v.key \o <<"=", Quote>> \o v.value \o <<Quote>>
    ELSE <<" ", " ">> \o v.key \o <<" ", "=", "\t", Quote>> \o v.value \o <<Quote, " ">>

RECURSIVE render_vars(_)
render_vars(vs) ==
    IF vs = <<>> THEN <<>>
    ELSE <<";">> \o render_var(Head(vs)) \o render_vars(Tail(vs))

render_cd(vs) == s_form_data \o render_vars(vs)

RECURSIVE SeqsUpTo(_, _)
SeqsUpTo(S, n) ==
    IF n = 0 THEN {<<>>}
    ELSE LET shorter == SeqsUpTo(S, n - 1)
         IN  shorter \cup {Append(q, x) : q \in {r \in shorter : Len(r) = n - 1}, x \in S}

CtValues == {None, Some(<<"i", "m", OpaqueByte>>), Some(s_image_png), Some(s_text_plain)}

\* how a content-disposition header is written: absent, unreadable, a bare word, or variables
CdSources ==
    {[kind |-> "absent", vs |-> <<>>], [kind |-> "opaque", vs |-> <<>>],
     [kind |-> "word", vs |-> <<>>]}
    \cup {[kind |-> "vars", vs |-> vs] : vs \in SeqsUpTo(VarSpecs, MaxVars)}

cd_of(src) ==
    CASE src.kind = "absent" -> None
      [] src.kind = "opaque" -> Some(s_form_data \o <<";", OpaqueByte>>)
      [] src.kind = "word" -> Some(s_invalid)
      [] OTHER -> Some(render_cd(src.vs))

(***************************************************************************)
(* The multipart stream (supplied by ntex_multipart).  An item of the      *)
(* stream is a stream error or a part: its header map and its chunks, each *)
(* chunk Ok(bytes) or an error.  Every byte of a stream is different, so   *)
(* that where a written byte came from can be told.                        *)
(***************************************************************************)
FieldNames == {s_a, s_b}

\* the header maps of the parts: content-type and content-disposition variables
HeaderSpecs ==
    << [ct |-> Some(s_image_png),
        vs |-> << [key |-> s_name, value |-> s_a, style |-> "quoted"],
                  [key |-> s_filename, value |-> s_x_png, style |-> "quoted"] >>],
       [ct |-> Some(s_text_plain),
        vs |-> << [key |-> s_name, value |-> s_b, style |-> "quoted"],
                  [key |-> s_filename, value |-> s_x_png, style |-> "quoted"] >>],
       \* no content-type header
       [ct |-> None,
        vs |-> << [key |-> s_name, value |-> s_a, style |-> "quoted"],
                  [key |-> s_filename, value |-> s_x_png, style |-> "quoted"] >>],
       \* a text form field: no filename
       [ct |-> Some(s_text_plain),
        vs |-> << [key |-> s_name, value |-> s_b, style |-> "quoted"] >>] >>

GoodHeaders == {1, 2}
BadHeaders == {3, 4}

PartHeaders == [h \in DOMAIN HeaderSpecs |->
                   [ct |-> HeaderSpecs[h].ct, cd |-> Some(render_cd(HeaderSpecs[h].vs))]]

\* field.headers() of a part, through FileInfo::create
Infos == [h \in DOMAIN PartHeaders |-> FileInfo_create(PartHeaders[h])]

\* the shape of an item: n good chunks, then an error chunk when bad
ItemShapes ==
    {[kind |-> "err", h |-> 0, n |-> 0, bad |-> FALSE]}
    \cup {[kind |-> "part", h |-> h, n |-> 1, bad |-> FALSE] : h \in BadHeaders}
    \cup {[kind |-> "part", h |-> h, n |-> n, bad |-> FALSE] : h \in GoodHeaders, n \in 0..MaxChunks}
    \cup {[kind |-> "part", h |-> 1, n |-> 1, bad |-> TRUE]}

\* the item of shape sh at position i of the stream: chunk j holds the one byte i * (MaxChunks + 1) + j
item_of(sh, i) ==
    [kind |-> sh.kind, h |-> sh.h,
     chunks |-> [j \in 1..sh.n |-> Ok(<<i * (MaxChunks + 1) + j>>)]
                \o (IF sh.bad THEN <<Err("PayloadError")>> ELSE <<>>)]

Streams == {[i \in DOMAIN shs |-> item_of(shs[i], i)] : shs \in SeqsUpTo(ItemShapes, MaxParts)}

\* Stream::next on the multipart: None at the end of the stream
multipart_next(m) == IF m.pos = Len(m.items) THEN None ELSE Some(m.items[m.pos + 1])

(***************************************************************************)
(* Uploader (uploader.rs).                                                 *)
(***************************************************************************)
Sizes == 0..MaxSize
UploadDatas ==
    [field : FieldNames, lower_size : Sizes, upper_size : {None} \cup {Some(n) : n \in Sizes},
     allowed_mimes : {{}, {s_image_png}}]

\* the UploadData capture() builds
capture_data(field) ==
    [field |-> field, lower_size |-> 0, upper_size |-> None, allowed_mimes |-> {}]

\* uploader.rs:65
mime_rejected(ud, info) == info.content_type \in ud.allowed_mimes

exceeds_upper_ge(ud, total_size) ==
    ud.upper_size # None /\ total_size >= unwrap(ud.upper_size)

\* uploader.rs:75
exceeds_upper(ud, total_size) ==
    ud.upper_size # None /\ total_size > unwrap(ud.upper_size)

\* uploader.rs:82
below_lower(ud, total_size) == total_size < ud.lower_size

matches_any(info, ud) == TRUE

\* uploader.rs:64
matches(info, ud) == info.field = ud.field

\* what a call leaves in the Uploader when it returns an error: nothing is assigned
rejected(result, self, pos, read) ==
    [result |-> result, pos |-> pos, bytes |-> self.bytes, file |-> self.file, read |-> read]

\* the chunk loop broken so that the chunks collected are assigned before the checks return
RECURSIVE read_chunks_stored(_, _, _, _, _, _, _)
read_chunks_stored(chunks, ud, info, total_size, collected, self, pos) ==
    IF chunks = <<>>
    THEN IF below_lower(ud, total_size)
         THEN [result |-> "LowerSizeError", pos |-> pos, bytes |-> collected,
               file |-> self.file, read |-> Len(collected)]
         ELSE [result |-> "Ok", pos |-> pos, bytes |-> collected,
               file |-> [info EXCEPT !.size = total_size], read |-> Len(collected)]
    ELSE LET chunk == Head(chunks)
         IN  IF chunk.tag = "Err" THEN rejected("Panic", self, pos, Len(collected) + 1)
             ELSE LET total == total_size + Len(chunk.val)
                  IN  IF exceeds_upper(ud, total)
                      THEN [result |-> "UpperSizeError", pos |-> pos, bytes |-> collected,
                            file |-> self.file, read |-> Len(collected) + 1]
                      ELSE read_chunks_stored(Tail(chunks), ud, info, total,
                                              Append(collected, chunk.val), self, pos)

\* the chunk loop broken so that a new chunk is put in front of the ones collected
RECURSIVE read_chunks_front(_, _, _, _, _, _, _)
read_chunks_front(chunks, ud, info, total_size, collected, self, pos) ==
    IF chunks = <<>>
    THEN IF below_lower(ud, total_size)
         THEN rejected("LowerSizeError", self, pos, Len(collected))
         ELSE [result |-> "Ok", pos |-> pos, bytes |-> collected,
               file |-> [info EXCEPT !.size = total_size], read |-> Len(collected)]
    ELSE LET chunk == Head(chunks)
         IN  IF chunk.tag = "Err" THEN rejected("Panic", self, pos, Len(collected) + 1)
             ELSE LET total == total_size + Len(chunk.val)
                  IN  IF exceeds_upper(ud, total)
                      THEN rejected("UpperSizeError", self, pos, Len(collected) + 1)
                      ELSE read_chunks_front(Tail(chunks), ud, info, total,
                                             <<chunk.val>> \o collected, self, pos)

\* uploader.rs:69-90: the chunks of the matching part, read until the part ends,
\* a chunk fails (unwrap panics) or the running total exceeds upper_size
RECURSIVE read_chunks(_, _, _, _, _, _, _)
read_chunks(chunks, ud, info, total_size, collected, self, pos) ==
    IF chunks = <<>>
    THEN IF below_lower(ud, total_size)
         THEN rejected("LowerSizeError", self, pos, Len(collected))
         ELSE [result |-> "Ok", pos |-> pos, bytes |-> collected,
               file |-> [info EXCEPT !.size = total_size], read |-> Len(collected)]
    ELSE LET chunk == Head(chunks)
         IN  IF chunk.tag = "Err" THEN rejected("Panic", self, pos, Len(collected) + 1)
             ELSE LET total == total_size + Len(chunk.val)
                  IN  IF exceeds_upper(ud, total)
                      THEN rejected("UpperSizeError", self, pos, Len(collected) + 1)
                      ELSE read_chunks(Tail(chunks), ud, info, total,
                                       Append(collected, chunk.val), self, pos)

\* the part loop broken so that a part whose headers do not parse is skipped
RECURSIVE scan_skipping(_, _, _)
scan_skipping(m, ud, self) ==
    LET item == multipart_next(m)
        pos == m.pos + 1
    IN  IF item = None THEN rejected("NotUploaded", self, m.pos, 0)
        ELSE IF unwrap(item).kind = "err" THEN rejected("NtexError", self, pos, 0)
        ELSE LET info == Infos[unwrap(item).h]
             IN  IF info.tag = "Err" THEN scan_skipping([m EXCEPT !.pos = pos], ud, self)
                 ELSE IF matches(info.val, ud)
                 THEN IF mime_rejected(ud, info.val)
                      THEN rejected("InvalidMimeType", self, pos, 0)
                      ELSE read_chunks(unwrap(item).chunks, ud, info.val, 0, <<>>, self, pos)
                 ELSE scan_skipping([m EXCEPT !.pos = pos], ud, self)

\* the part loop broken so that a failed call clears the captured file
RECURSIVE scan_clearing(_, _, _)
scan_clearing(m, ud, self) ==
    LET item == multipart_next(m)
        pos == m.pos + 1
        cleared == [bytes |-> <<>>, file |-> FileInfo_default]
    IN  IF item = None THEN rejected("NotUploaded", cleared, m.pos, 0)
        ELSE IF unwrap(item).kind = "err" THEN rejected("NtexError", self, pos, 0)
        ELSE LET info == Infos[unwrap(item).h]
             IN  IF info.tag = "Err" THEN rejected(info.err, self, pos, 0)
                 ELSE IF matches(info.val, ud)
                 THEN IF mime_rejected(ud, info.val)
                      THEN rejected("InvalidMimeType", self, pos, 0)
                      ELSE read_chunks(unwrap(item).chunks, ud, info.val, 0, <<>>, self, pos)
                 ELSE scan_clearing([m EXCEPT !.pos = pos], ud, self)

\* uploader.rs:56-95: the loop over the parts from the stream's position.  The outcome:
\* the result, the stream's new position, self.bytes and self.file after the call, and
\* how many chunks of the part were pulled.
RECURSIVE scan(_, _, _)
scan(m, ud, self) ==
    LET item == multipart_next(m)
        pos == m.pos + 1
    IN  IF item = None THEN rejected("NotUploaded", self, m.pos, 0)
        ELSE IF unwrap(item).kind = "err" THEN rejected("NtexError", self, pos, 0)
        ELSE LET info == Infos[unwrap(item).h]
             IN  IF info.tag = "Err" THEN rejected(info.err, self, pos, 0)
                 ELSE IF matches(info.val, ud)
                 THEN IF mime_rejected(ud, info.val)
                      THEN rejected("InvalidMimeType", self, pos, 0)
                      ELSE read_chunks(unwrap(item).chunks, ud, info.val, 0, <<>>, self, pos)
                 ELSE scan([m EXCEPT !.pos = pos], ud, self)

RECURSIVE concat(_)
concat(chunks) == IF chunks = <<>> THEN <<>> ELSE Head(chunks) \o concat(Tail(chunks))

NotCalled == [tag |-> "NotCalled"]
CaptureOps == {"capture", "capture_advance"}

\* the handler that owns the Uploader makes a call when it holds no unread result
Ready == last.op = "none"

InitUploader ==
    /\ bytes = <<>>
    /\ file = FileInfo_default
    /\ disk = None
    /\ accepted = {}
    /\ last = [op |-> "none"]

\* Uploader::new on the multipart of a request
Init ==
    /\ \E items \in Streams : multipart = [items |-> items, pos |-> 0]
    /\ InitUploader
    /\ hdrSrc = [kind |-> "absent", vs |-> <<>>]
    /\ headers = [ct |-> None, cd |-> None]
    /\ created = NotCalled

advance(op, ud) ==
    LET out == scan(multipart, ud, [bytes |-> bytes, file |-> file])
    IN  /\ multipart' = [multipart EXCEPT !.pos = out.pos]
        /\ bytes' = out.bytes
        /\ file' = out.file
        /\ accepted' = IF out.result = "Ok" THEN accepted \cup {out.pos} ELSE accepted
        /\ last' = [op |-> op, ud |-> ud, result |-> out.result,
                    start |-> multipart.pos, read |-> out.read]
        /\ UNCHANGED <<disk, headers, hdrSrc, created>>

\* Uploader::capture_advance(ud)
CaptureAdvance(ud) == Ready /\ advance("capture_advance", ud)

\* Uploader::capture(field)
Capture(field) == Ready /\ advance("capture", capture_data(field))

\* Uploader::save(path): File::create fails, or a write or the flush fails after
\* `written` bytes reached the file, or all bytes are written
Save(outcome, written) ==
    /\ Ready
    /\ written \in 0..Len(concat(bytes))
    /\ \/ /\ outcome = "create_failed"
          /\ written = 0
          /\ disk' = disk
          /\ last' = [op |-> "save", result |-> "IoError"]
       \/ /\ outcome = "write_failed"
          /\ disk' = Some(SubSeq(concat(bytes), 1, written))
          /\ last' = [op |-> "save", result |-> "IoError"]
       \/ /\ outcome = "saved"
          /\ written = Len(concat(bytes))
          /\ disk' = Some(concat(bytes))
          /\ last' = [op |-> "save", result |-> "Ok"]
    /\ UNCHANGED <<multipart, bytes, file, accepted, headers, hdrSrc, created>>

\* the handler reads the result of its call and goes on; a panic unwinds the
\* handler with the Uploader it owns, and no call follows it
Proceed ==
    /\ ~Ready
    /\ last.result # "Panic"
    /\ last' = [op |-> "none"]
    /\ UNCHANGED <<multipart, bytes, file, disk, accepted, headers, hdrSrc, created>>

Next ==
    \/ Proceed
    \/ \E ud \in UploadDatas : CaptureAdvance(ud)
    \/ \E field \in FieldNames : Capture(field)
    \/ \E outcome \in {"create_failed", "write_failed", "saved"}, written \in 0..(MaxChunks + 1) :
           Save(outcome, written)

Spec == Init /\ [][Next]_vars

(***************************************************************************)
(* FileInfo::create on its own.                                            *)
(***************************************************************************)
InitCreate ==
    /\ hdrSrc \in CdSources
    /\ \E ct \in CtValues : headers = [ct |-> ct, cd |-> cd_of(hdrSrc)]
    /\ created = NotCalled
    /\ multipart = [items |-> <<>>, pos |-> 0]
    /\ InitUploader

\* a caller hands the header map to FileInfo::create
Create ==
    /\ created = NotCalled
    /\ created' = FileInfo_create(headers)
    /\ UNCHANGED <<multipart, bytes, file, disk, accepted, last, headers, hdrSrc>>

NextCreate == Create

SpecCreate == InitCreate /\ [][NextCreate]_vars

(***************************************************************************)
(* What the properties are stated with: the stream as it was written, not  *)
(* what the code made of it.                                               *)
(***************************************************************************)
Keys(vs) == {vs[i].key : i \in DOMAIN vs}

\* the value a header written from vs gives to key: the one written last
LastValue(vs, key) ==
    LET i == CHOOSE i \in DOMAIN vs :
                 vs[i].key = key /\ \A j \in DOMAIN vs : vs[j].key = key => j <= i
    IN  vs[i].value

Readable(v) == v # None /\ \A i \in 1..Len(unwrap(v)) : unwrap(v)[i] # OpaqueByte

IsPrefix(p, q) == Len(p) <= Len(q) /\ \A i \in 1..Len(p) : p[i] = q[i]

Items == multipart.items
IsPart(i) == Items[i].kind = "part"
WrittenOk(i) ==
    /\ IsPart(i)
    /\ HeaderSpecs[Items[i].h].ct # None
    /\ {s_name, s_filename} \subseteq Keys(HeaderSpecs[Items[i].h].vs)
WrittenField(i) == LastValue(HeaderSpecs[Items[i].h].vs, s_name)
WrittenType(i) == unwrap(HeaderSpecs[Items[i].h].ct)

\* the bytes of part i, chunk after chunk, from the last chunk backwards
RECURSIVE Flat(_)
Flat(chunks) ==
    IF chunks = <<>> THEN <<>>
    ELSE Flat(SubSeq(chunks, 1, Len(chunks) - 1)) \o chunks[Len(chunks)].val
PartBytes(i) == IF i = 0 THEN <<>> ELSE Flat(Items[i].chunks)
NoChunkFails(i) == \A k \in DOMAIN Items[i].chunks : Items[i].chunks[k].tag = "Ok"
\* the bytes in the first k chunks of part i
RunningTotal(i, k) == Len(Flat(SubSeq(Items[i].chunks, 1, k)))

Captured == last.op \in CaptureOps
\* the last call stopped on a part written for the field it asked for
Decided ==
    /\ Captured
    /\ multipart.pos > last.start
    /\ WrittenOk(multipart.pos)
    /\ WrittenField(multipart.pos) = last.ud.field
SizeResults == {"Ok", "UpperSizeError", "LowerSizeError", "Panic"}

\* what the size checks are to answer for part i under ud, and after how many chunks
ExpectedSizeResult(i, ud) ==
    LET chunks == Items[i].chunks
        failing == {k \in DOMAIN chunks : chunks[k].tag = "Err"}
        readable == IF failing = {} THEN Len(chunks)
                    ELSE (CHOOSE k \in failing : \A j \in failing : k <= j) - 1
        over == IF ud.upper_size = None THEN {}
                ELSE {k \in 1..readable : RunningTotal(i, k) > unwrap(ud.upper_size)}
    IN  IF over # {}
        THEN [result |-> "UpperSizeError", read |-> CHOOSE k \in over : \A j \in over : k <= j]
        ELSE IF failing # {} THEN [result |-> "Panic", read |-> readable + 1]
        ELSE IF RunningTotal(i, Len(chunks)) < ud.lower_size
        THEN [result |-> "LowerSizeError", read |-> Len(chunks)]
        ELSE [result |-> "Ok", read |-> Len(chunks)]

(***************************************************************************)
(* C1: on the part written for the target field, a content type outside a  *)
(* non-empty allowed_mimes is answered InvalidMimeType, and a content type *)
(* inside allowed_mimes is never answered InvalidMimeType: the part goes   *)
(* on to the size checks.                                                  *)
(***************************************************************************)
MimeAllowListEnforced ==
    Decided =>
        LET ct == WrittenType(multipart.pos)
            allowed == last.ud.allowed_mimes
        IN  /\ (allowed # {} /\ ct \notin allowed) => last.result = "InvalidMimeType"
            /\ ct \in allowed => last.result \in SizeResults

(***************************************************************************)
(* C2: a matching part that reaches the size checks is answered by them    *)
(* alone: UpperSizeError at the first chunk after which the running total  *)
(* exceeds upper_size, with no further chunk read; LowerSizeError when the *)
(* part ends below lower_size; Ok otherwise, so only for a total T with    *)
(* lower_size <= T and (upper_size is None or T <= upper_size).            *)
(***************************************************************************)
SizeBoundsEnforced ==
    (Decided /\ last.result # "InvalidMimeType") =>
        LET i == multipart.pos
            ud == last.ud
            T == RunningTotal(i, Len(Items[i].chunks))
        IN  /\ last.result = ExpectedSizeResult(i, ud).result
            /\ last.read = ExpectedSizeResult(i, ud).read
            /\ last.result = "Ok" =>
                   /\ NoChunkFails(i)
                   /\ ud.lower_size <= T
                   /\ (ud.upper_size = None \/ T <= unwrap(ud.upper_size))

SizeBoundsWitness ==
    /\ Decided
    /\ last.result = "Ok"
    /\ Len(bytes) > 0
    /\ last.ud.lower_size = file.size
    /\ last.ud.upper_size = Some(file.size)

(***************************************************************************)
(* C3: a capture never writes to disk, and whenever the file changes, its  *)
(* content is (a prefix of) the bytes of a part for which a capture had    *)
(* returned Ok, or empty when none had: no byte of a rejected part is ever *)
(* written.                                                                *)
(***************************************************************************)
OnlyAcceptedBytesWritten ==
    [][/\ last'.op \in CaptureOps => disk' = disk
       /\ disk' # disk =>
              /\ last'.op = "save"
              /\ \E i \in accepted \cup {0} : IsPrefix(unwrap(disk'), PartBytes(i))]_vars

OnlyAcceptedBytesWitness ==
    /\ last.op = "save"
    /\ disk # None
    /\ unwrap(disk) # <<>>
    /\ \E i \in 1..multipart.pos :
           i \notin accepted /\ IsPart(i) /\ WrittenOk(i) /\ PartBytes(i) # <<>>

(***************************************************************************)
(* C4: after a capture returned Ok, the stored chunks are the chunks of    *)
(* the part in arrival order and file().size is the sum of their lengths;  *)
(* after a save returned Ok, the file holds the concatenation of the       *)
(* chunks of the part captured last, in that order.                        *)
(***************************************************************************)
PersistenceIsPassThrough ==
    /\ (Captured /\ last.result = "Ok") =>
           /\ bytes = [k \in DOMAIN Items[multipart.pos].chunks |->
                          Items[multipart.pos].chunks[k].val]
           /\ file.size = Len(PartBytes(multipart.pos))
    /\ (last.op = "save" /\ last.result = "Ok") =>
           LET latest == IF accepted = {} THEN 0
                         ELSE CHOOSE i \in accepted : \A j \in accepted : j <= i
           IN  disk = Some(PartBytes(latest))

PersistenceWitness ==
    /\ last.op = "save"
    /\ last.result = "Ok"
    /\ Len(bytes) >= 2
    /\ disk = Some(bytes[1] \o bytes[2])

(***************************************************************************)
(* C7: a call scans the parts in stream order from the stream's position,  *)
(* decides on the first part written for ud.field, and returns NotUploaded *)
(* exactly when every part from the position to the end of the stream is a *)
(* part written for another field; a part before the position is never     *)
(* looked at again.                                                        *)
(***************************************************************************)
FirstMatchOverRemainingStream ==
    Captured =>
        LET s == last.start
            p == multipart.pos
            Other(i) == WrittenOk(i) /\ WrittenField(i) # last.ud.field
            Match(i) == WrittenOk(i) /\ WrittenField(i) = last.ud.field
        IN  /\ s <= p /\ p <= Len(Items)
            /\ \A i \in (s + 1)..(p - 1) : Other(i)
            /\ last.result = "NotUploaded" <=>
                   (p = Len(Items) /\ \A i \in (s + 1)..Len(Items) : Other(i))
            /\ last.result \in SizeResults \cup {"InvalidMimeType"} <=> (p > s /\ Match(p))

FirstMatchWitness ==
    /\ Captured
    /\ last.result = "NotUploaded"
    /\ \E i \in 1..last.start, j \in accepted :
           i < j /\ i \notin accepted /\ WrittenOk(i) /\ WrittenField(i) = last.ud.field

(***************************************************************************)
(* C8: a part reached by the scan whose headers FileInfo::create rejects   *)
(* ends the call with that error, InvalidContentType without a             *)
(* content-type and InvalidContentDisposition without name or filename,    *)
(* whatever field it was written for and whatever follows it.              *)
(***************************************************************************)
HeadersParsedBeforeMatching ==
    Captured =>
        LET s == last.start
            p == multipart.pos
            Broken(i) == IsPart(i) /\ ~WrittenOk(i)
        IN  /\ \A i \in (s + 1)..p : Broken(i) =>
                   /\ i = p
                   /\ last.result = IF HeaderSpecs[Items[i].h].ct = None
                                    THEN "InvalidContentType"
                                    ELSE "InvalidContentDisposition"
            /\ last.result \in {"InvalidContentType", "InvalidContentDisposition"} =>
                   (p > s /\ Broken(p))

HeadersParsedWitness ==
    /\ Captured
    /\ last.result = "InvalidContentDisposition"
    /\ multipart.pos > last.start
    /\ WrittenField(multipart.pos) # last.ud.field
    /\ \E j \in (multipart.pos + 1)..Len(Items) :
           /\ WrittenOk(j)
           /\ WrittenField(j) = last.ud.field
           /\ last.ud.allowed_mimes = {}
           /\ ExpectedSizeResult(j, last.ud).result = "Ok"

(***************************************************************************)
(* C9: a capture that does not return Ok leaves the stored chunks, the     *)
(* file info and the disk as they were; the chunks and the file info       *)
(* change only in a capture that returns Ok, and then to the chunks and    *)
(* the info of the part it accepted.                                       *)
(***************************************************************************)
CapturedStateUnchangedOnError ==
    [][/\ (last'.op \in CaptureOps /\ last'.result # "Ok") =>
              (bytes' = bytes /\ file' = file /\ disk' = disk /\ accepted' = accepted)
       /\ (bytes' # bytes \/ file' # file) =>
              /\ last'.op \in CaptureOps
              /\ last'.result = "Ok"
              /\ Len(bytes') = Len(Items[multipart'.pos].chunks)
              /\ file'.field = last'.ud.field
              /\ file'.size = Len(PartBytes(multipart'.pos))]_vars

CapturedStateWitness ==
    /\ Captured
    /\ last.result \in {"UpperSizeError", "LowerSizeError", "InvalidMimeType"}
    /\ accepted # {}
    /\ bytes # <<>>
    /\ file.size = Len(bytes)
    /\ multipart.pos \notin accepted

(***************************************************************************)
(* C5: FileInfo::create returns InvalidContentType when the content-type   *)
(* header is absent, whatever the content-disposition; with a content-type *)
(* that reads, InvalidContentDisposition when the content-disposition is   *)
(* absent or its variables lack name or filename; and Ok only with a       *)
(* content-type and both variables.                                        *)
(***************************************************************************)
CreateRejectsIncompleteHeaders ==
    created # NotCalled =>
        LET complete == /\ hdrSrc.kind = "vars"
                        /\ {s_name, s_filename} \subseteq Keys(hdrSrc.vs)
        IN  /\ headers.ct = None => created = Err("InvalidContentType")
            /\ (Readable(headers.ct) /\ ~complete) => created = Err("InvalidContentDisposition")
            /\ created.tag = "Ok" => (headers.ct # None /\ complete)
            /\ (Readable(headers.ct) /\ complete) => created.tag = "Ok"

CreateRejectsWitness ==
    /\ created = Err("InvalidContentDisposition")
    /\ headers.ct # None
    /\ hdrSrc.kind = "vars"
    /\ s_name \in Keys(hdrSrc.vs)
    /\ s_app \in Keys(hdrSrc.vs)
    /\ s_filename \notin Keys(hdrSrc.vs)

(***************************************************************************)
(* C6: for a content-type that reads and a content-disposition written as  *)
(* form-data; k1="v1"; ... with name and filename among the keys,          *)
(* FileInfo::create returns a FileInfo with field the value of name, name  *)
(* the value of filename (quotes and whitespace around them stripped),     *)
(* content_type the header value and size 0, in any order of the variables *)
(* and with other variables present; form-data itself is no variable.      *)
(***************************************************************************)
CreateReadsNameAndFilename ==
    (/\ created # NotCalled
     /\ Readable(headers.ct)
     /\ hdrSrc.kind = "vars"
     /\ {s_name, s_filename} \subseteq Keys(hdrSrc.vs)) =>
        /\ created.tag = "Ok"
        /\ created.val.field = LastValue(hdrSrc.vs, s_name)
        /\ created.val.name = LastValue(hdrSrc.vs, s_filename)
        /\ created.val.content_type = unwrap(headers.ct)
        /\ created.val.size = 0
        /\ DOMAIN created.val.content_disposition_vars = Keys(hdrSrc.vs)

CreateReadsWitness ==
    /\ created.tag = "Ok"
    /\ Len(hdrSrc.vs) = 3
    /\ hdrSrc.vs[1].key = s_filename
    /\ hdrSrc.vs[1].style = "padded"
    /\ hdrSrc.vs[2].key = s_app
    /\ hdrSrc.vs[3].key = s_name
    /\ created.val.field = hdrSrc.vs[3].value
    /\ created.val.name = hdrSrc.vs[1].value

====
